---- MODULE Spec2Model ----
(***************************************************************************)
(* Frida Android interceptor of httptoolkit-server: the single-flight      *)
(* host discovery of FridaAndroidInterceptor (getFridaHosts and its        *)
(* callers), the per-device host state resolution of frida-hosts.ts        *)
(* (getAndroidFridaHosts, getHostStatus and its probes) and the            *)
(* activation pipeline (activate -> setupAndroidHost / launchAndroidHost / *)
(* interceptAndroidFridaTarget).                                           *)
(*                                                                         *)
(* Promises are modelled at the granularity of the JavaScript job queue:   *)
(* one action per external completion (a device-bridge call resolving or   *)
(* rejecting) followed by the synchronous code and promise reactions that  *)
(* it triggers, except where the order of two reactions is observable      *)
(* (the settlement of a lookup and the finally callback that clears the    *)
(* cache slot are separate steps, as are the resumptions of the callers).  *)
(***************************************************************************)
EXTENDS Integers, Sequences, FiniteSets, TLC

\* ------------------------------------------------------------------ bounds

\* Number of facade calls (getFridaHosts / isActivable / getMetadata) made.
NumCallers == 2

Callers == 1..NumCallers

\* A lookup is started by a call, so there are at most NumCallers of them.
LookupIds == 1..NumCallers

\* Longest device property string, in tokens (ABI names, "," and " ").
MaxPropLen == 3

\* Number of facade operations other than discovery (activate,
\* getSubMetadata, deactivate, deactivateAll) made one after the other.
MaxOperations == 2

\* Number of readiness attempts of one launch whose getHostStatus rejects.
MaxProbeFaults == 1

\* ------------------------------------------------------- program constants

FRIDA_DEFAULT_PORT == 27042
FRIDA_ALTERNATE_PORT == 24072

FRIDA_BINARY_NAME == "adirf-server"

\* 0o00111
ALL_X_PERMS == 73

\* waitUntil(500, 10, ...): the attempt budget of the readiness poll.
LAUNCH_TRIES == 10

\* 0o555, the mode setupAndroidHost pushes the binary with.
PUSH_MODE == 365

ABI_ARCH_MAP ==
    [abi \in {"arm64-v8a", "armeabi", "armabi-v7a", "x86", "x86_64"} |->
        CASE abi = "arm64-v8a" -> "arm64"
          [] abi = "armeabi" -> "arm"
          [] abi = "armabi-v7a" -> "arm"
          [] abi = "x86" -> "x86"
          [] abi = "x86_64" -> "x86_64"]

\* ----------------------------------------------------------- the devices

Devices == {"emulator-5554", "R58M12"}

\* What getConnectedDevices can resolve to: the connected devices, in the
\* order the device bridge lists them.
DeviceLists ==
    {<<>>} \cup {<<d>> : d \in Devices}
           \cup {<<p[1], p[2]>> : p \in {q \in Devices \X Devices : q[1] # q[2]}}

FridaPorts == {FRIDA_DEFAULT_PORT, FRIDA_ALTERNATE_PORT}

\* File modes: 0o644, 0o555, 0o010 (group-executable only).
Entry(name, mode) == [name |-> name, mode |-> mode]

\* The result of readdir(ANDROID_DEVICE_HTK_PATH): a rejection (the
\* directory is missing or unreadable) or the entries of the directory.
Unreadable == [ok |-> FALSE, entries |-> <<>>]

Listing(entries) == [ok |-> TRUE, entries |-> entries]

DirStates ==
    { Unreadable,
      Listing(<<>>),
      Listing(<<Entry(FRIDA_BINARY_NAME, 365)>>),
      Listing(<<Entry(FRIDA_BINARY_NAME, 420)>>),
      Listing(<<Entry("frida-script.js", 420), Entry(FRIDA_BINARY_NAME, 8)>>),
      Listing(<<Entry("busybox", 365), Entry(FRIDA_BINARY_NAME, 420)>>) }

\* The outcome of the privilege probe on the device.
RootStates == {"yes", "no", "error"}

\* What a device answers to the probes: the ports on which openTcp
\* connects, the directory listing, the privilege probe.
DeviceStates ==
    [openPorts : SUBSET FridaPorts, dir : DirStates, root : RootStates]

\* Device property strings are sequences of tokens: an ABI name, the
\* separator "," or a blank.
AbiNames == {"arm64-v8a", "armeabi-v7a", "x86", "mips"}

PropChars == AbiNames \cup {",", " "}

PropStrings == UNION {[1..n -> PropChars] : n \in 0..MaxPropLen}

Absent == [present |-> FALSE, value |-> <<>>]

Present(str) == [present |-> TRUE, value |-> str]

\* What getProperties can resolve to, as far as setupAndroidHost reads it:
\* ro.product.cpu.abilist, or without it ro.product.cpu.abi.
DeviceProperties ==
    {[abilist |-> Present(str), abi |-> Absent] : str \in PropStrings}
    \cup {[abilist |-> Absent, abi |-> Absent]}
    \cup {[abilist |-> Absent, abi |-> Present(str)] :
             str \in {t \in PropStrings : Len(t) <= 2}}

\* Three answers of getProperties: a list whose second ABI is recognized, a
\* list of one unrecognized ABI, and neither property.
SampleProperties ==
    { [abilist |-> Present(<<"mips", ",", "arm64-v8a">>), abi |-> Absent],
      [abilist |-> Present(<<"mips">>), abi |-> Absent],
      [abilist |-> Absent, abi |-> Absent] }

\* Devices for the pipeline: a server listening on the alternate port of a
\* device whose other probes fail, a server listening on the default port
\* only, an installed binary on an unrooted device, and a rooted device
\* with an empty directory.
SampleDeviceStates ==
    { [openPorts |-> {FRIDA_ALTERNATE_PORT}, dir |-> Unreadable, root |-> "error"],
      [openPorts |-> {FRIDA_DEFAULT_PORT}, dir |-> Listing(<<>>), root |-> "no"],
      [openPorts |-> {}, dir |-> Listing(<<Entry(FRIDA_BINARY_NAME, 365)>>), root |-> "no"],
      [openPorts |-> {}, dir |-> Listing(<<>>), root |-> "yes"] }

\* Rooted devices, as launchAndroidHost needs them: with the binary, with an
\* empty directory, and with a server already listening on the default port.
LaunchDeviceStates ==
    { [openPorts |-> {}, dir |-> Listing(<<Entry(FRIDA_BINARY_NAME, 365)>>), root |-> "yes"],
      [openPorts |-> {}, dir |-> Listing(<<>>), root |-> "yes"],
      [openPorts |-> {FRIDA_DEFAULT_PORT}, dir |-> Unreadable, root |-> "yes"] }

\* A rooted device with an empty directory beside a device with a server
\* listening on the default port: every operation has a device to run on.
ConcurrentDevices ==
    [d \in Devices |->
        IF d = "emulator-5554"
        THEN [openPorts |-> {}, dir |-> Listing(<<>>), root |-> "yes"]
        ELSE [openPorts |-> {FRIDA_DEFAULT_PORT}, dir |-> Listing(<<>>), root |-> "no"]]

\* The two extremes: a device whose first probe succeeds and a device on
\* which every probe fails.
FacadeDeviceStates ==
    { [openPorts |-> {FRIDA_ALTERNATE_PORT}, dir |-> Unreadable, root |-> "error"],
      [openPorts |-> {}, dir |-> Unreadable, root |-> "error"] }

\* ----------------------------------------------------------------- state

VARIABLES
    device,               \* device id -> what the device answers
    fridaTargetsPromise,  \* the cache slot: 0 (undefined) or a lookup id
    lookups,              \* number of getAndroidFridaHosts calls started
    lookup,               \* lookup id -> state of that discovery operation
    caller,               \* caller -> state of that facade call
    act,                  \* the activate / getSubMetadata / deactivate call in progress
    operations,           \* number of such calls started
    server,               \* device id -> the server process launchAndroidHost started
    pushTransfer          \* device id -> the transfer setupAndroidHost's push started

facadeVars == <<fridaTargetsPromise, lookups, lookup, caller>>

pipelineVars == <<act, operations, server, pushTransfer>>

vars == <<device, fridaTargetsPromise, lookups, lookup, caller,
          act, operations, server, pushTransfer>>

\* -------------------------------------------------------- pure functions

RECURSIVE BitAnd(_, _)
BitAnd(a, b) ==
    IF a = 0 \/ b = 0 THEN 0
    ELSE (IF a % 2 = 1 /\ b % 2 = 1 THEN 1 ELSE 0) + 2 * BitAnd(a \div 2, b \div 2)

\* entries.some(entry => name === FRIDA_BINARY_NAME && (mode & ALL_X_PERMS) !== 0)
HasExecutableBinaryAllBits(entries) ==
    \E i \in DOMAIN entries :
        /\ entries[i].name = FRIDA_BINARY_NAME
        /\ BitAnd(entries[i].mode, ALL_X_PERMS) = ALL_X_PERMS

HasExecutableBinary(entries) ==
    \E i \in DOMAIN entries :
        /\ entries[i].name = FRIDA_BINARY_NAME
        /\ BitAnd(entries[i].mode, ALL_X_PERMS) # 0

\* Probe results are "yes" / "no", or "threw" when the probe's promise rejects.
isFridaInstalledNoCatch(dev) ==
    IF ~dev.dir.ok THEN "threw"
    ELSE IF HasExecutableBinary(dev.dir.entries) THEN "yes" ELSE "no"

isFridaInstalled(dev) ==
    IF ~dev.dir.ok THEN "no"           \* .catch(() => false)
    ELSE IF HasExecutableBinary(dev.dir.entries) THEN "yes" ELSE "no"

isDevicePortOpen(dev, port) ==
    IF port \in dev.openPorts THEN "yes"   \* openTcp resolved
    ELSE "no"                              \* .catch(() => false)

\* adb-commands.isProbablyRooted: an opaque boolean, false on any error.
isProbablyRooted(dev) ==
    IF dev.root = "yes" THEN "yes" ELSE "no"

\* --------------------------------------------------------- getHostStatus

\* The locals of one getHostStatus call. pc: where the call is suspended.
HsIdle ==
    [pc |-> "idle",
     defaultPortOpen |-> "unchecked", alternatePortOpen |-> "unchecked",
     installed |-> "unchecked", rooted |-> "unchecked",
     state |-> "unavailable"]

\* The synchronous prefix: state = 'unavailable', both port probes started.
HsStart ==
    [HsIdle EXCEPT !.pc = "ports",
                   !.defaultPortOpen = "pending",
                   !.alternatePortOpen = "pending"]

HsReturn(t, state) == [t EXCEPT !.pc = "returned", !.state = state]

HsThrow(t) == [t EXCEPT !.pc = "threw"]

AnyPortOpenBoth(defaultPortOpen, alternatePortOpen) ==
    defaultPortOpen = "yes" /\ alternatePortOpen = "yes"

\* if (defaultPortOpen || alternatePortOpen)
AnyPortOpen(defaultPortOpen, alternatePortOpen) ==
    defaultPortOpen = "yes" \/ alternatePortOpen = "yes"

\* The continuation after Promise.all of the two port probes.
HsAfterPorts(t) ==
    IF AnyPortOpen(t.defaultPortOpen, t.alternatePortOpen)
    THEN HsReturn(t, "available")
    ELSE [t EXCEPT !.pc = "installed", !.installed = "pending"]

\* One port probe settles; the continuation runs once both have.
HsPortProbed(t, port, res) ==
    LET u == IF port = FRIDA_DEFAULT_PORT
             THEN [t EXCEPT !.defaultPortOpen = res]
             ELSE [t EXCEPT !.alternatePortOpen = res]
    IN  IF res = "threw" THEN HsThrow(u)
        ELSE IF u.defaultPortOpen = "pending" \/ u.alternatePortOpen = "pending"
        THEN u
        ELSE HsAfterPorts(u)

HsInstalledCheckedThenRooted(t, res) ==
    LET u == [t EXCEPT !.installed = res]
    IN  IF res = "threw" THEN HsThrow(u)
        ELSE [u EXCEPT !.pc = "rooted", !.rooted = "pending"]

\* else if (await isFridaInstalled(deviceClient))
HsInstalledChecked(t, res) ==
    LET u == [t EXCEPT !.installed = res]
    IN  IF res = "threw" THEN HsThrow(u)
        ELSE IF res = "yes" THEN HsReturn(u, "launch-required")
        ELSE [u EXCEPT !.pc = "rooted", !.rooted = "pending"]

StateAfterRootedSwapped(res) ==
    IF res = "yes" THEN "unavailable" ELSE "setup-required"

\* else if (await isProbablyRooted(deviceClient)) ... else ...
StateAfterRooted(res) ==
    IF res = "yes" THEN "setup-required" ELSE "unavailable"

HsRootedChecked(t, res) ==
    LET u == [t EXCEPT !.rooted = res]
    IN  IF res = "threw" THEN HsThrow(u)
        ELSE HsReturn(u, StateAfterRooted(res))

\* The FridaHost value getHostStatus returns.
Host(deviceId, state) ==
    [id |-> deviceId, name |-> deviceId, type |-> "android", state |-> state]

\* ------------------------------------------------- getAndroidFridaHosts

Range(s) == {s[i] : i \in DOMAIN s}

LookupIdle ==
    [phase |-> "unstarted",
     devices |-> <<>>,
     hs |-> [d \in Devices |-> HsIdle],
     outcome |-> "pending",
     rejectedBy |-> "none",
     result |-> <<>>]

\* ------------------------------------------------------ setupAndroidHost

\* String.prototype.split(','): the pieces between the separators.
RECURSIVE Split(_)
Split(str) ==
    IF \A i \in DOMAIN str : str[i] # ","
    THEN <<str>>
    ELSE LET i == CHOOSE k \in DOMAIN str :
                      str[k] = "," /\ \A j \in 1..(k - 1) : str[j] # ","
         IN  <<SubSeq(str, 1, i - 1)>> \o Split(SubSeq(str, i + 1, Len(str)))

\* String.prototype.trim(): without the leading and trailing blanks.
RECURSIVE Trim(_)
Trim(str) ==
    IF str = <<>> THEN str
    ELSE IF Head(str) = " " THEN Trim(Tail(str))
    ELSE IF str[Len(str)] = " " THEN Trim(SubSeq(str, 1, Len(str) - 1))
    ELSE str

\* (abilist?.split(',') ?? [abi]).map(abi => abi.trim()); the map throws a
\* TypeError when neither property is there ([undefined]).
HasAbiProperty(props) == props.abilist.present \/ props.abi.present

SupportedAbis(props) ==
    IF props.abilist.present
    THEN LET pieces == Split(props.abilist.value)
         IN  [i \in DOMAIN pieces |-> Trim(pieces[i])]
    ELSE <<Trim(props.abi.value)>>

\* Object.keys(ABI_ARCH_MAP).includes(abi)
IsKnownAbi(abi) == Len(abi) = 1 /\ abi[1] \in DOMAIN ABI_ARCH_MAP

FirstKnownAbiLast(supportedAbis) ==
    IF \E i \in DOMAIN supportedAbis : IsKnownAbi(supportedAbis[i])
    THEN LET i == CHOOSE k \in DOMAIN supportedAbis :
                      /\ IsKnownAbi(supportedAbis[k])
                      /\ \A j \in (k + 1)..Len(supportedAbis) :
                             ~IsKnownAbi(supportedAbis[j])
         IN  supportedAbis[i][1]
    ELSE "none"

\* supportedAbis.find(abi => Object.keys(ABI_ARCH_MAP).includes(abi));
\* "none" stands for undefined.
FirstKnownAbi(supportedAbis) ==
    IF \E i \in DOMAIN supportedAbis : IsKnownAbi(supportedAbis[i])
    THEN LET i == CHOOSE k \in DOMAIN supportedAbis :
                      /\ IsKnownAbi(supportedAbis[k])
                      /\ \A j \in 1..(k - 1) : ~IsKnownAbi(supportedAbis[j])
         IN  supportedAbis[i][1]
    ELSE "none"

DeviceArchOrDefault(firstKnownAbi) ==
    IF firstKnownAbi = "none" THEN "arm64" ELSE ABI_ARCH_MAP[firstKnownAbi]

\* if (!firstKnownAbi) throw ...; const deviceArch = ABI_ARCH_MAP[firstKnownAbi];
\* "none" stands for the throw.
DeviceArch(firstKnownAbi) ==
    IF firstKnownAbi = "none" THEN "none" ELSE ABI_ARCH_MAP[firstKnownAbi]

\* The directory once the pushed file is written: FRIDA_BINARY_NAME with
\* mode 0o555, in place of an older entry of that name.
RECURSIVE WithoutBinary(_)
WithoutBinary(entries) ==
    IF entries = <<>> THEN <<>>
    ELSE IF Head(entries).name = FRIDA_BINARY_NAME
    THEN WithoutBinary(Tail(entries))
    ELSE <<Head(entries)>> \o WithoutBinary(Tail(entries))

DirAfterPush(dir) ==
    Listing(WithoutBinary(dir.entries) \o <<Entry(FRIDA_BINARY_NAME, PUSH_MODE)>>)

\* ----------------------------------------------------- launchAndroidHost

\* adb-commands.getRootCommand: a command wrapper, or undefined (FALSE).
getRootCommand(dev) == dev.root = "yes"

\* util/promise.waitUntil(delayMs, tries, test) after an attempt: resolve
\* when the test passed, throw when the budget is spent, else sleep.
waitUntil(tries, attempt, passed) ==
    IF passed THEN "resolve"
    ELSE IF attempt >= tries THEN "throw"
    ELSE "sleep"

ProbePassedAnyState(probe) == probe.pc = "returned"

\* The test: try { return (await getHostStatus(..)).state === 'available' }
\* catch (e) { return false }
ProbePassed(probe) == probe.pc = "returned" /\ probe.state = "available"

\* ------------------------------------------------------------- activate

ActionTags == {"setup", "launch", "intercept", "teardown", "none"}

ActIdle ==
    [pc |-> "idle", op |-> "none", action |-> "none", hostId |-> "none",
     stage |-> "none", calls |-> {}, outcome |-> "pending", error |-> "none",
     supportedAbis |-> <<>>, firstKnownAbi |-> "none", deviceArch |-> "none",
     tries |-> 0, probe |-> HsIdle, attempts |-> <<>>, port |-> 0]

Resolved(a) == [a EXCEPT !.pc = "done", !.outcome = "resolved"]

Rejected(a, error) == [a EXCEPT !.pc = "done", !.outcome = "rejected", !.error = error]

Calling(a, call) == [a EXCEPT !.pc = call, !.calls = @ \cup {call}]

StageOfFallThrough(action) ==
    IF action = "setup" THEN "setupAndroidHost"
    ELSE IF action = "launch" THEN "launchAndroidHost"
    ELSE "interceptAndroidFridaTarget"

\* The if / else if chain of activate; "none" stands for its final else.
StageOf(action) ==
    IF action = "setup" THEN "setupAndroidHost"
    ELSE IF action = "launch" THEN "launchAndroidHost"
    ELSE IF action = "intercept" THEN "interceptAndroidFridaTarget"
    ELSE "none"

\* The first device-bridge call each stage makes and awaits.
FirstCall(stage) ==
    CASE stage = "setupAndroidHost" -> "getProperties"
      [] stage = "launchAndroidHost" -> "getRootCommand"
      [] stage = "interceptAndroidFridaTarget" -> "openTcpAlternate"
      [] stage = "getAndroidFridaTargets" -> "openTcpAlternate"

\* ------------------------------------------------ FridaAndroidInterceptor

Methods == <<"isActivable", "getMetadata", "getFridaHosts">>

\* The facade method through which caller c arrives.
MethodOf(c) == Methods[((c - 1) % 3) + 1]

CallerIdle ==
    [pc |-> "idle", method |-> "none", promise |-> 0, epoch |-> 0,
     started |-> FALSE, hosts |-> <<>>, activable |-> FALSE]

\* Number of lookups whose shared future has settled.
Epoch == Cardinality({id \in LookupIds : lookup[id].phase = "cleared"})

SlotEmptyAlways(slot) == TRUE

SlotEmptyOrSettled(slot) == slot = 0 \/ lookup[slot].phase = "settled"

\* if (!this._fridaTargetsPromise)
SlotEmpty(slot) == slot = 0

SlotAfterStartForgotten(id) == 0

\* this._fridaTargetsPromise = getAndroidFridaHosts(...).finally(...)
SlotAfterStart(id) == id

SlotAfterSettleKept(slot) == slot

\* .finally(() => { this._fridaTargetsPromise = undefined; })
SlotAfterSettle(slot) == 0

InitFacade ==
    /\ fridaTargetsPromise = 0
    /\ lookups = 0
    /\ lookup = [id \in LookupIds |-> LookupIdle]
    /\ caller = [c \in Callers |-> CallerIdle]
    /\ act = ActIdle
    /\ operations = 0
    /\ server = [d \in Devices |-> "none"]
    /\ pushTransfer = [d \in Devices |-> "none"]

\* Discovery by several callers, over devices in the two extreme states.
Init ==
    /\ device \in [Devices -> FacadeDeviceStates]
    /\ InitFacade

\* Discovery over devices in every state.
InitResolve ==
    /\ device \in [Devices -> DeviceStates]
    /\ InitFacade

\* The pipeline over devices in the sample states.
InitPipeline ==
    /\ device \in [Devices -> SampleDeviceStates]
    /\ InitFacade

\* Discovery and the other operations side by side.
InitConcurrent ==
    /\ device = ConcurrentDevices
    /\ InitFacade

\* Launches of rooted devices.
InitLaunch ==
    /\ device \in [Devices -> LaunchDeviceStates]
    /\ InitFacade

\* A call of getFridaHosts, directly or through isActivable / getMetadata:
\* the code up to the await of the shared promise.
GetFridaHosts(c) ==
    /\ caller[c].pc = "idle"
    /\ IF SlotEmpty(fridaTargetsPromise)
       THEN /\ lookups < NumCallers
            /\ lookups' = lookups + 1
            \* getAndroidFridaHosts runs up to its await of getConnectedDevices
            /\ lookup' = [lookup EXCEPT ![lookups + 1] =
                             [LookupIdle EXCEPT !.phase = "devices"]]
            /\ fridaTargetsPromise' = SlotAfterStart(lookups + 1)
       ELSE UNCHANGED <<lookups, lookup, fridaTargetsPromise>>
    /\ caller' = [caller EXCEPT ![c] =
                     [CallerIdle EXCEPT !.pc = "awaiting",
                                        !.method = MethodOf(c),
                                        !.promise = fridaTargetsPromise',
                                        !.epoch = Epoch,
                                        !.started = (lookups' # lookups)]]
    /\ UNCHANGED <<device, pipelineVars>>

\* getConnectedDevices rejects: getAndroidFridaHosts rejects.
ConnectedDevicesFail(id) ==
    /\ lookup[id].phase = "devices"
    /\ lookup' = [lookup EXCEPT ![id] =
                     [@ EXCEPT !.phase = "settled",
                               !.outcome = "rejected",
                               !.rejectedBy = "getConnectedDevices"]]
    /\ UNCHANGED <<device, fridaTargetsPromise, lookups, caller>>
    /\ UNCHANGED pipelineVars

\* getConnectedDevices resolves: devices.map starts getHostStatus for each.
ConnectedDevicesListed(id, devices) ==
    /\ lookup[id].phase = "devices"
    /\ lookup' = [lookup EXCEPT ![id] =
                     [@ EXCEPT !.phase = "probing",
                               !.devices = devices,
                               !.hs = [d \in Devices |->
                                          IF d \in Range(devices)
                                          THEN HsStart ELSE HsIdle]]]
    /\ UNCHANGED <<device, fridaTargetsPromise, lookups, caller>>
    /\ UNCHANGED pipelineVars

PortProbeDone(id, d, port) ==
    /\ lookup[id].hs[d].pc = "ports"
    /\ IF port = FRIDA_DEFAULT_PORT
       THEN lookup[id].hs[d].defaultPortOpen = "pending"
       ELSE lookup[id].hs[d].alternatePortOpen = "pending"
    /\ lookup' = [lookup EXCEPT ![id].hs[d] =
                     HsPortProbed(@, port, isDevicePortOpen(device[d], port))]
    /\ UNCHANGED <<device, fridaTargetsPromise, lookups, caller>>
    /\ UNCHANGED pipelineVars

InstalledCheckDone(id, d) ==
    /\ lookup[id].hs[d].pc = "installed"
    /\ lookup' = [lookup EXCEPT ![id].hs[d] =
                     HsInstalledChecked(@, isFridaInstalled(device[d]))]
    /\ UNCHANGED <<device, fridaTargetsPromise, lookups, caller>>
    /\ UNCHANGED pipelineVars

RootedCheckDone(id, d) ==
    /\ lookup[id].hs[d].pc = "rooted"
    /\ lookup' = [lookup EXCEPT ![id].hs[d] =
                     HsRootedChecked(@, isProbablyRooted(device[d]))]
    /\ UNCHANGED <<device, fridaTargetsPromise, lookups, caller>>
    /\ UNCHANGED pipelineVars

\* Promise.all over the per-device calls settles: it rejects as soon as one
\* getHostStatus call rejects, and fulfils once all have returned;
\* getAndroidFridaHosts then returns the statuses in the order of the devices.
LookupSettles(id) ==
    /\ lookup[id].phase = "probing"
    /\ LET l == lookup[id]
           threw == \E d \in Range(l.devices) : l.hs[d].pc = "threw"
       IN  /\ threw \/ \A d \in Range(l.devices) : l.hs[d].pc = "returned"
           /\ lookup' = [lookup EXCEPT ![id] =
                  IF threw
                  THEN [l EXCEPT !.phase = "settled",
                                 !.outcome = "rejected",
                                 !.rejectedBy = "getHostStatus"]
                  ELSE [l EXCEPT !.phase = "settled",
                                 !.outcome = "fulfilled",
                                 !.result = [i \in DOMAIN l.devices |->
                                     Host(l.devices[i], l.hs[l.devices[i]].state)]]]
    /\ UNCHANGED <<device, fridaTargetsPromise, lookups, caller>>
    /\ UNCHANGED pipelineVars

\* The finally callback of a settled lookup runs, then the shared promise
\* settles the way the lookup did.
FinallyCallback(id) ==
    /\ lookup[id].phase = "settled"
    /\ fridaTargetsPromise' = SlotAfterSettle(fridaTargetsPromise)
    /\ lookup' = [lookup EXCEPT ![id].phase = "cleared"]
    /\ UNCHANGED <<device, lookups, caller>>
    /\ UNCHANGED pipelineVars

isActivableAlways(hosts) == TRUE

\* return (await this.getFridaHosts()).length > 0;
isActivable(hosts) == Len(hosts) > 0

\* A caller's await of the shared promise completes.
CallerResumes(c) ==
    /\ caller[c].pc = "awaiting"
    /\ caller[c].promise # 0
    /\ lookup[caller[c].promise].phase = "cleared"
    /\ LET l == lookup[caller[c].promise]
       IN  caller' = [caller EXCEPT ![c] =
               IF l.outcome = "rejected"
               THEN [@ EXCEPT !.pc = "threw"]
               ELSE [@ EXCEPT !.pc = "returned",
                              !.hosts = l.result,
                              !.activable = isActivable(l.result)]]
    /\ UNCHANGED <<device, fridaTargetsPromise, lookups, lookup>>
    /\ UNCHANGED pipelineVars

\* ------------------------------------------------- the pipeline's steps

\* activate(proxyPort, options): the dispatch, and the stage's code up to
\* its first await.
Activate(action, hostId) ==
    /\ act.pc = "idle"
    /\ operations < MaxOperations
    /\ operations' = operations + 1
    /\ LET a == [ActIdle EXCEPT !.op = "activate", !.action = action,
                                !.hostId = hostId, !.stage = StageOf(action)]
       IN  act' = IF a.stage = "none"
                  THEN Rejected(a, "unknown-action")
                  ELSE Calling(a, FirstCall(a.stage))
    /\ UNCHANGED <<device, facadeVars, server, pushTransfer>>

\* getSubMetadata(hostId): getAndroidFridaTargets up to its first await.
GetSubMetadata(hostId) ==
    /\ act.pc = "idle"
    /\ operations < MaxOperations
    /\ operations' = operations + 1
    /\ act' = Calling([ActIdle EXCEPT !.op = "getSubMetadata",
                                      !.hostId = hostId,
                                      !.stage = "getAndroidFridaTargets"],
                      FirstCall("getAndroidFridaTargets"))
    /\ UNCHANGED <<device, facadeVars, server, pushTransfer>>

DeactivateClearingSlot(op) ==
    /\ act.pc = "idle"
    /\ operations < MaxOperations
    /\ operations' = operations + 1
    /\ act' = Resolved([ActIdle EXCEPT !.op = op])
    /\ fridaTargetsPromise' = 0
    /\ UNCHANGED <<device, lookups, lookup, caller, server, pushTransfer>>

\* deactivate(proxyPort) and deactivateAll(): empty bodies.
Deactivate(op) ==
    /\ act.pc = "idle"
    /\ operations < MaxOperations
    /\ operations' = operations + 1
    /\ act' = Resolved([ActIdle EXCEPT !.op = op])
    /\ UNCHANGED <<device, facadeVars, server, pushTransfer>>

\* The caller of a finished operation has its result.
OperationReturns ==
    /\ act.pc = "done"
    /\ act' = ActIdle
    /\ UNCHANGED <<device, facadeVars, operations, server, pushTransfer>>

\* An awaited call to the device bridge, the binary provider or the
\* instrumentation client rejects: nothing catches it, the operation rejects.
ExternalCallFails ==
    /\ act.pc \in {"getProperties", "downloadFridaServer", "push",
                   "getRootCommand", "shell", "connect", "buildScript",
                   "spawnWithScript", "enumerateApplications"}
    /\ act' = Rejected(act, "external-error")
    /\ UNCHANGED <<device, facadeVars, operations, server, pushTransfer>>

\* setupAndroidHost after getProperties resolved with props: up to the
\* throw or the await of downloadFridaServer.
AfterProperties(a, props) ==
    IF ~HasAbiProperty(props) THEN Rejected(a, "type-error")
    ELSE LET supportedAbis == SupportedAbis(props)
             firstKnownAbi == FirstKnownAbi(supportedAbis)
             deviceArch == DeviceArch(firstKnownAbi)
             b == [a EXCEPT !.supportedAbis = supportedAbis,
                            !.firstKnownAbi = firstKnownAbi,
                            !.deviceArch = deviceArch]
         IN  IF deviceArch = "none"
             THEN Rejected(b, "unrecognized-abi")
             ELSE Calling(b, "downloadFridaServer")

\* setupAndroidHost: getProperties resolves, with one of these properties.
PropertiesReadFrom(properties) ==
    /\ act.pc = "getProperties"
    /\ \E props \in properties : act' = AfterProperties(act, props)
    /\ UNCHANGED <<device, facadeVars, operations, server, pushTransfer>>

PropertiesRead == PropertiesReadFrom(DeviceProperties)

\* setupAndroidHost: downloadFridaServer resolves, push is called.
ServerDownloaded ==
    /\ act.pc = "downloadFridaServer"
    /\ act' = Calling(act, "push")
    /\ UNCHANGED <<device, facadeVars, operations, server, pushTransfer>>

\* setupAndroidHost: push resolves. The device bridge resolves it with the
\* PushTransfer it has started; the code awaits only this promise, not the
\* end of the transfer, so setupAndroidHost returns here.
PushStarted ==
    /\ act.pc = "push"
    /\ act' = Resolved(act)
    /\ pushTransfer' = [pushTransfer EXCEPT ![act.hostId] = "running"]
    /\ UNCHANGED <<device, facadeVars, operations, server>>

\* The device bridge finishes a transfer: the file is on the device.
PushTransferEnds(d) ==
    /\ pushTransfer[d] = "running"
    /\ pushTransfer' = [pushTransfer EXCEPT ![d] = "none"]
    /\ device' = [device EXCEPT ![d].dir = DirAfterPush(@)]
    /\ UNCHANGED <<facadeVars, act, operations, server>>

AfterRootCommandUnchecked(a, runAsRoot) == Calling(a, "shell")

\* if (!runAsRoot) throw new Error("Couldn't get root access ...");
\* const fridaServerStream = await deviceClient.shell(runAsRoot(...));
AfterRootCommand(a, runAsRoot) ==
    IF runAsRoot THEN Calling(a, "shell") ELSE Rejected(a, "no-root")

\* launchAndroidHost: getRootCommand resolves.
RootCommandObtained ==
    /\ act.pc = "getRootCommand"
    /\ act' = AfterRootCommand(act, getRootCommand(device[act.hostId]))
    /\ UNCHANGED <<device, facadeVars, operations, server, pushTransfer>>

\* launchAndroidHost: shell resolves with the server's stream; waitUntil
\* makes its first attempt, which starts getHostStatus.
ShellStarted ==
    /\ act.pc = "shell"
    /\ server' = [server EXCEPT ![act.hostId] = "started"]
    /\ act' = [act EXCEPT !.pc = "probe", !.tries = 1, !.probe = HsStart]
    /\ UNCHANGED <<device, facadeVars, operations, pushTransfer>>

\* The started server begins to listen on the alternate port.
ServerListens(d) ==
    /\ server[d] = "started"
    /\ device[d].dir.ok
    /\ HasExecutableBinary(device[d].dir.entries)
    /\ server' = [server EXCEPT ![d] = "listening"]
    /\ device' = [device EXCEPT ![d].openPorts = @ \cup {FRIDA_ALTERNATE_PORT}]
    /\ UNCHANGED <<facadeVars, act, operations, pushTransfer>>

\* What an attempt's getHostStatus ended with: the state it returned, or
\* "error" when it threw.
AttemptResult(probe) == IF probe.pc = "threw" THEN "error" ELSE probe.state

AfterProbeStepNoThrow(a) ==
    IF a.probe.pc \notin {"returned", "threw"} THEN a
    ELSE LET b == [a EXCEPT !.attempts = Append(@, AttemptResult(a.probe))]
             next == waitUntil(LAUNCH_TRIES, a.tries, ProbePassed(a.probe))
         IN  IF next = "resolve" THEN Resolved(b)
             ELSE IF next = "throw" THEN Resolved(b)
             ELSE [b EXCEPT !.pc = "sleep"]

AfterProbeStepNoCatch(a) ==
    IF a.probe.pc \notin {"returned", "threw"} THEN a
    ELSE LET b == [a EXCEPT !.attempts = Append(@, AttemptResult(a.probe))]
             next == waitUntil(LAUNCH_TRIES, a.tries, ProbePassed(a.probe))
         IN  IF a.probe.pc = "threw" THEN Rejected(b, "launch-failed")
             ELSE IF next = "resolve" THEN Resolved(b)
             ELSE IF next = "throw" THEN Rejected(b, "launch-failed")
             ELSE [b EXCEPT !.pc = "sleep"]

\* launchAndroidHost after a step of the attempt's getHostStatus: once it
\* has returned or thrown, waitUntil resolves, throws or sleeps; the catch
\* around waitUntil throws the launch error. attempts records what each
\* attempt ended with.
AfterProbeStep(a) ==
    IF a.probe.pc \notin {"returned", "threw"} THEN a
    ELSE LET b == [a EXCEPT !.attempts = Append(@, AttemptResult(a.probe))]
             next == waitUntil(LAUNCH_TRIES, a.tries, ProbePassed(a.probe))
         IN  IF next = "resolve" THEN Resolved(b)
             ELSE IF next = "throw" THEN Rejected(b, "launch-failed")
             ELSE [b EXCEPT !.pc = "sleep"]

ProbePortDone(port) ==
    /\ act.pc = "probe"
    /\ act.probe.pc = "ports"
    /\ IF port = FRIDA_DEFAULT_PORT
       THEN act.probe.defaultPortOpen = "pending"
       ELSE act.probe.alternatePortOpen = "pending"
    /\ act' = AfterProbeStep([act EXCEPT !.probe =
                 HsPortProbed(@, port, isDevicePortOpen(device[act.hostId], port))])
    /\ UNCHANGED <<device, facadeVars, operations, server, pushTransfer>>

ProbeInstalledDone ==
    /\ act.pc = "probe"
    /\ act.probe.pc = "installed"
    /\ act' = AfterProbeStep([act EXCEPT !.probe =
                 HsInstalledChecked(@, isFridaInstalled(device[act.hostId]))])
    /\ UNCHANGED <<device, facadeVars, operations, server, pushTransfer>>

ProbeRootedDone ==
    /\ act.pc = "probe"
    /\ act.probe.pc = "rooted"
    /\ act' = AfterProbeStep([act EXCEPT !.probe =
                 HsRootedChecked(@, isProbablyRooted(device[act.hostId]))])
    /\ UNCHANGED <<device, facadeVars, operations, server, pushTransfer>>

\* The attempt's getHostStatus rejects: a call it awaits fails outside the
\* catch of its probe, and the catch of the test turns that into false.
\* The probes above absorb their own failures, so this step is the only one
\* that reaches that catch.
ProbeThrows ==
    /\ act.pc = "probe"
    /\ act.probe.pc \in {"ports", "installed", "rooted"}
    /\ Cardinality({i \in DOMAIN act.attempts : act.attempts[i] = "error"})
          < MaxProbeFaults
    /\ act' = AfterProbeStep([act EXCEPT !.probe = HsThrow(@)])
    /\ UNCHANGED <<device, facadeVars, operations, server, pushTransfer>>

\* waitUntil's delay ends: the next attempt starts getHostStatus.
SleepEnds ==
    /\ act.pc = "sleep"
    /\ act' = [act EXCEPT !.pc = "probe", !.tries = @ + 1, !.probe = HsStart]
    /\ UNCHANGED <<device, facadeVars, operations, server, pushTransfer>>

AfterAlternateThenDefault(a, opened) == Calling(a, "openTcpDefault")

\* await deviceClient.openTcp(FRIDA_ALTERNATE_PORT)
\*     .catch(() => deviceClient.openTcp(FRIDA_DEFAULT_PORT));
AfterAlternate(a, opened) ==
    IF opened
    THEN Calling([a EXCEPT !.port = FRIDA_ALTERNATE_PORT], "connect")
    ELSE Calling(a, "openTcpDefault")

\* openTcp(FRIDA_ALTERNATE_PORT) settles: on a rejection the catch opens
\* the default port.
AlternateSettles ==
    /\ act.pc = "openTcpAlternate"
    /\ act' = AfterAlternate(act,
                  FRIDA_ALTERNATE_PORT \in device[act.hostId].openPorts)
    /\ UNCHANGED <<device, facadeVars, operations, server, pushTransfer>>

\* openTcp(FRIDA_DEFAULT_PORT) settles.
DefaultSettles ==
    /\ act.pc = "openTcpDefault"
    /\ act' = IF FRIDA_DEFAULT_PORT \in device[act.hostId].openPorts
              THEN Calling([act EXCEPT !.port = FRIDA_DEFAULT_PORT], "connect")
              ELSE Rejected(act, "external-error")
    /\ UNCHANGED <<device, facadeVars, operations, server, pushTransfer>>

\* FridaJs.connect resolves.
SessionConnected ==
    /\ act.pc = "connect"
    /\ act' = IF act.stage = "interceptAndroidFridaTarget"
              THEN Calling(act, "buildScript")
              ELSE Calling(act, "enumerateApplications")
    /\ UNCHANGED <<device, facadeVars, operations, server, pushTransfer>>

\* buildAndroidFridaScript resolves, spawnWithScript is called.
ScriptBuilt ==
    /\ act.pc = "buildScript"
    /\ act' = Calling(act, "spawnWithScript")
    /\ UNCHANGED <<device, facadeVars, operations, server, pushTransfer>>

\* spawnWithScript resolves.
Spawned ==
    /\ act.pc = "spawnWithScript"
    /\ act' = Resolved(act)
    /\ UNCHANGED <<device, facadeVars, operations, server, pushTransfer>>

\* enumerateApplications resolves: disconnect, return the applications.
Enumerated ==
    /\ act.pc = "enumerateApplications"
    /\ act' = Resolved([act EXCEPT !.calls = @ \cup {"disconnect"}])
    /\ UNCHANGED <<device, facadeVars, operations, server, pushTransfer>>

\* The steps of the pipeline other than the reading of the properties.
PipelineSteps ==
    \/ \E action \in ActionTags, h \in Devices : Activate(action, h)
    \/ \E h \in Devices : GetSubMetadata(h)
    \/ \E op \in {"deactivate", "deactivateAll"} : Deactivate(op)
    \/ OperationReturns
    \/ ExternalCallFails
    \/ ServerDownloaded
    \/ PushStarted
    \/ \E d \in Devices : PushTransferEnds(d)
    \/ RootCommandObtained
    \/ ShellStarted
    \/ \E d \in Devices : ServerListens(d)
    \/ \E port \in FridaPorts : ProbePortDone(port)
    \/ ProbeInstalledDone
    \/ ProbeRootedDone
    \/ SleepEnds
    \/ AlternateSettles
    \/ DefaultSettles
    \/ SessionConnected
    \/ ScriptBuilt
    \/ Spawned
    \/ Enumerated

Pipeline ==
    \/ PropertiesRead
    \/ PipelineSteps

Discovery ==
    \/ \E id \in LookupIds : ConnectedDevicesFail(id)
    \/ \E id \in LookupIds, ds \in DeviceLists : ConnectedDevicesListed(id, ds)
    \/ \E id \in LookupIds, d \in Devices, p \in FridaPorts : PortProbeDone(id, d, p)
    \/ \E id \in LookupIds, d \in Devices : InstalledCheckDone(id, d)
    \/ \E id \in LookupIds, d \in Devices : RootedCheckDone(id, d)
    \/ \E id \in LookupIds : LookupSettles(id)
    \/ \E id \in LookupIds : FinallyCallback(id)
    \/ \E c \in Callers : CallerResumes(c)

Next ==
    \/ \E c \in Callers : GetFridaHosts(c)
    \/ Discovery

Spec == Init /\ [][Next]_vars

\* One facade call over devices in every state.
NextResolve ==
    \/ GetFridaHosts(1)
    \/ Discovery

SpecResolve == InitResolve /\ [][NextResolve]_vars

\* The operations other than discovery, over devices in the sample states.
SpecPipeline == InitPipeline /\ [][Pipeline]_vars

\* The steps of a launch in progress: each is the return of a call the
\* launch awaits (the device bridge, a probe, the delay of waitUntil).
LaunchSteps ==
    \/ RootCommandObtained
    \/ ShellStarted
    \/ \E port \in FridaPorts : ProbePortDone(port)
    \/ ProbeInstalledDone
    \/ ProbeRootedDone
    \/ SleepEnds

NextLaunch ==
    \/ \E h \in Devices : Activate("launch", h)
    \/ OperationReturns
    \/ ExternalCallFails
    \/ \E d \in Devices : ServerListens(d)
    \/ ProbeThrows
    \/ LaunchSteps

\* Launches of rooted devices, with attempts whose getHostStatus rejects;
\* every call a launch awaits returns.
SpecLaunch == InitLaunch /\ [][NextLaunch]_vars /\ WF_vars(LaunchSteps)

\* One getFridaHosts call and its lookup, while the other operations run.
NextConcurrent ==
    \/ GetFridaHosts(1)
    \/ Discovery
    \/ PropertiesReadFrom(SampleProperties)
    \/ PipelineSteps

SpecConcurrent == InitConcurrent /\ [][NextConcurrent]_vars

\* ------------------------------------------------------------ properties

\* The callers whose call arrived after e shared promises had settled and
\* before the next one did.
CallersOfEpoch(e) ==
    {c \in Callers : caller[c].pc # "idle" /\ caller[c].epoch = e}

Finished(c) == caller[c].pc \in {"returned", "threw"}

\* C1: the callers that arrive from the moment no lookup is in flight until
\* the lookup then started has settled its shared promise start exactly one
\* getAndroidFridaHosts between them, and those that have their answer all
\* have the same one, which is that lookup's.
C1_SingleFlight ==
    \A e \in 0..NumCallers :
        LET group == CallersOfEpoch(e)
        IN  group # {} =>
              /\ Cardinality({c \in group : caller[c].started}) = 1
              /\ \A c \in group, other \in group :
                    Finished(c) /\ Finished(other) =>
                        /\ caller[c].pc = caller[other].pc
                        /\ caller[c].hosts = caller[other].hosts
              /\ \A c \in group :
                    /\ caller[c].promise \in 1..lookups
                    /\ caller[c].pc = "returned" =>
                          /\ lookup[caller[c].promise].outcome = "fulfilled"
                          /\ caller[c].hosts = lookup[caller[c].promise].result
                    /\ caller[c].pc = "threw" =>
                          lookup[caller[c].promise].outcome = "rejected"

\* Two callers, through isActivable and getMetadata, shared one lookup over
\* both devices and have both returned.
C1_Witness ==
    /\ lookups = 1
    /\ caller[1].pc = "returned" /\ caller[1].method = "isActivable"
    /\ caller[2].pc = "returned" /\ caller[2].method = "getMetadata"
    /\ caller[1].started # caller[2].started
    /\ Len(caller[1].hosts) = 2
    /\ caller[1].hosts[1].state # caller[1].hosts[2].state

\* A step in which caller c makes its call.
Calls(c) == caller[c].pc = "idle" /\ caller'[c].pc = "awaiting"

\* The step starts a lookup, and it is the one caller c awaits.
StartsLookupFor(c) ==
    /\ lookups' = lookups + 1
    /\ lookup'[lookups'].phase = "devices"
    /\ caller'[c].promise = lookups'

\* C2 as stated: a call that arrives at any point after the latest
\* getAndroidFridaHosts has settled starts a new one.
C2_FreshAfterSettle ==
    [][\A c \in Callers :
          (/\ Calls(c)
           /\ lookups > 0
           /\ lookup[lookups].phase \in {"settled", "cleared"})
          => StartsLookupFor(c)]_vars

\* C2 amended: a call that arrives after the latest lookup has settled and
\* its finally callback has run starts a new getAndroidFridaHosts and awaits
\* that one; a call that arrives after the lookup has settled but before the
\* callback has run starts none and awaits the settled lookup.
C2_FreshAfterClear ==
    [][\A c \in Callers :
          /\ (/\ Calls(c)
              /\ lookups > 0
              /\ lookup[lookups].phase = "cleared")
             => StartsLookupFor(c)
          /\ (/\ Calls(c)
              /\ lookups > 0
              /\ lookup[lookups].phase = "settled")
             => /\ lookups' = lookups
                /\ caller'[c].promise = lookups]_vars

\* A call arrived after a rejected lookup was cleared and started the second
\* lookup, which has fulfilled.
C2_Witness ==
    /\ lookups = 2
    /\ lookup[1].phase = "cleared" /\ lookup[1].outcome = "rejected"
    /\ lookup[2].outcome = "fulfilled"
    /\ \E c \in Callers : caller[c].epoch = 1 /\ caller[c].promise = 2

Executing == {id \in LookupIds : lookup[id].phase \in {"devices", "probing"}}

\* C3: at most one getAndroidFridaHosts is executing.
C3_AtMostOneLookup == Cardinality(Executing) <= 1

\* Two callers await while the one lookup probes the devices.
C3_Witness ==
    /\ Executing = {1}
    /\ lookup[1].phase = "probing"
    /\ \A c \in Callers : caller[c].pc = "awaiting"

\* The getHostStatus calls of the lookups that have returned, with the device.
ReturnedStatuses ==
    {<<id, d>> \in LookupIds \X Devices : lookup[id].hs[d].pc = "returned"}

PortReachable(d) == device[d].openPorts # {}

\* A file mode with an executable bit for the owner, the group or the others.
Executable(mode) ==
    \/ mode % 2 = 1
    \/ (mode \div 8) % 2 = 1
    \/ (mode \div 64) % 2 = 1

\* The Installed check of the device: the directory can be listed and holds
\* the server binary with an executable bit.
Installed(d) ==
    /\ device[d].dir.ok
    /\ \E i \in DOMAIN device[d].dir.entries :
          /\ device[d].dir.entries[i].name = "adirf-server"
          /\ Executable(device[d].dir.entries[i].mode)

Rooted(d) == device[d].root = "yes"

\* The state a lookup reports for device d, in getHostStatus and in the result.
ReportsOnly(state, id, d) ==
    /\ lookup[id].hs[d].state = state
    /\ \A i \in DOMAIN lookup[id].result :
          lookup[id].result[i].id = d => lookup[id].result[i].state = state

\* C4: a device on which the default or the alternate port is reachable
\* resolves to 'available', whatever its directory and privilege probe say.
C4_ReachableIsAvailable ==
    \A p \in ReturnedStatuses :
        PortReachable(p[2]) => ReportsOnly("available", p[1], p[2])

\* Only the default port is reachable, nothing is installed, not rooted.
C4_Witness ==
    \E p \in ReturnedStatuses :
        /\ device[p[2]].openPorts = {FRIDA_DEFAULT_PORT}
        /\ ~Installed(p[2]) /\ ~Rooted(p[2])
        /\ lookup[p[1]].outcome = "fulfilled"
        /\ \E i \in DOMAIN lookup[p[1]].result :
              lookup[p[1]].result[i] = Host(p[2], "available")

\* C5: a device with neither port reachable and the binary installed
\* resolves to 'launch-required', rooted or not.
C5_InstalledIsLaunchRequired ==
    \A p \in ReturnedStatuses :
        ~PortReachable(p[2]) /\ Installed(p[2])
            => ReportsOnly("launch-required", p[1], p[2])

\* The binary is group-executable only, behind another entry, on a rooted device.
C5_Witness ==
    \E p \in ReturnedStatuses :
        /\ ~PortReachable(p[2])
        /\ device[p[2]].dir =
              Listing(<<Entry("frida-script.js", 420), Entry(FRIDA_BINARY_NAME, 8)>>)
        /\ Rooted(p[2])
        /\ lookup[p[1]].outcome = "fulfilled"
        /\ \E i \in DOMAIN lookup[p[1]].result :
              lookup[p[1]].result[i] = Host(p[2], "launch-required")

\* C6: a device with neither port reachable and nothing installed resolves
\* to 'setup-required' when it is rooted and to 'unavailable' when not.
C6_RootedDecides ==
    \A p \in ReturnedStatuses :
        ~PortReachable(p[2]) /\ ~Installed(p[2])
            => ReportsOnly(IF Rooted(p[2]) THEN "setup-required" ELSE "unavailable",
                           p[1], p[2])

\* One lookup reports a rooted device whose directory holds the binary
\* without an executable bit beside an executable file, and an unrooted one.
C6_Witness ==
    \E id \in LookupIds :
        /\ lookup[id].outcome = "fulfilled"
        /\ Len(lookup[id].result) = 2
        /\ lookup[id].result[1].state = "setup-required"
        /\ device[lookup[id].result[1].id].dir =
              Listing(<<Entry("busybox", 365), Entry(FRIDA_BINARY_NAME, 420)>>)
        /\ lookup[id].result[2].state = "unavailable"
        /\ device[lookup[id].result[2].id].root = "no"

ProbeFields(t) == {t.defaultPortOpen, t.alternatePortOpen, t.installed, t.rooted}

\* C7: no probe failure escapes: getHostStatus never throws, a check whose
\* underlying call fails counts as false, and a lookup or a caller is only
\* rejected by getConnectedDevices.
C7_ProbeErrorsAbsorbed ==
    /\ \A id \in LookupIds, d \in Devices :
          LET t == lookup[id].hs[d]
          IN  /\ t.pc # "threw"
              /\ "threw" \notin ProbeFields(t)
              /\ FRIDA_DEFAULT_PORT \notin device[d].openPorts
                    => t.defaultPortOpen \in {"unchecked", "pending", "no"}
              /\ FRIDA_ALTERNATE_PORT \notin device[d].openPorts
                    => t.alternatePortOpen \in {"unchecked", "pending", "no"}
              /\ ~device[d].dir.ok
                    => t.installed \in {"unchecked", "pending", "no"}
              /\ device[d].root = "error"
                    => t.rooted \in {"unchecked", "pending", "no"}
    /\ \A id \in LookupIds :
          lookup[id].outcome = "rejected"
              => lookup[id].rejectedBy = "getConnectedDevices"
    /\ \A c \in Callers :
          caller[c].pc = "threw"
              => lookup[caller[c].promise].rejectedBy = "getConnectedDevices"

\* Every probe of a device failed, and the caller has its state.
C7_Witness ==
    \E c \in Callers, d \in Devices :
        /\ device[d] = [openPorts |-> {}, dir |-> Unreadable, root |-> "error"]
        /\ caller[c].pc = "returned"
        /\ lookup[caller[c].promise].hs[d].rooted = "no"
        /\ \E i \in DOMAIN caller[c].hosts :
              caller[c].hosts[i] = Host(d, "unavailable")

\* The calls each stage of the pipeline makes.
CallsOf(stage) ==
    CASE stage = "setupAndroidHost" ->
            {"getProperties", "downloadFridaServer", "push"}
      [] stage = "launchAndroidHost" -> {"getRootCommand", "shell"}
      [] stage = "interceptAndroidFridaTarget" ->
            {"openTcpAlternate", "openTcpDefault", "connect", "buildScript",
             "spawnWithScript"}

\* C8: activate with a tag other than setup, launch and intercept rejects
\* with the unknown-action error and calls nothing; with one of the three it
\* runs that tag's stage and makes only that stage's calls.
C8_Dispatch ==
    act.op = "activate" =>
        /\ act.action \notin {"setup", "launch", "intercept"} =>
              /\ act.pc = "done"
              /\ act.outcome = "rejected" /\ act.error = "unknown-action"
              /\ act.stage = "none"
              /\ act.calls = {}
              /\ act.tries = 0
        /\ act.action = "setup" =>
              act.stage = "setupAndroidHost" /\ act.tries = 0
        /\ act.action = "launch" => act.stage = "launchAndroidHost"
        /\ act.action = "intercept" =>
              act.stage = "interceptAndroidFridaTarget" /\ act.tries = 0
        /\ act.action \in {"setup", "launch", "intercept"} =>
              /\ FirstCall(act.stage) \in act.calls
              /\ act.calls \subseteq CallsOf(act.stage)
              /\ act.error # "unknown-action"

\* activate was called with the tag teardown.
C8_Witness ==
    /\ act.op = "activate"
    /\ act.action = "teardown"
    /\ act.error = "unknown-action"

Recognized(abi) ==
    abi \in {<<"arm64-v8a">>, <<"armeabi">>, <<"armabi-v7a">>, <<"x86">>, <<"x86_64">>}

\* setupAndroidHost has asked for the server binary.
SetupFetched ==
    act.stage = "setupAndroidHost" /\ "downloadFridaServer" \in act.calls

\* C9: the architecture setupAndroidHost fetches, and then pushes, is the
\* one ABI_ARCH_MAP gives for the first recognized ABI of the device's list.
C9_FirstRecognizedAbi ==
    /\ SetupFetched =>
          \E i \in DOMAIN act.supportedAbis :
              /\ Recognized(act.supportedAbis[i])
              /\ \A j \in 1..(i - 1) : ~Recognized(act.supportedAbis[j])
              /\ act.deviceArch = ABI_ARCH_MAP[act.supportedAbis[i][1]]
    /\ act.stage = "setupAndroidHost" /\ "push" \in act.calls => SetupFetched

\* The list "mips,arm64-v8a" selected arm64, which was pushed.
C9_Witness ==
    /\ act.stage = "setupAndroidHost"
    /\ act.supportedAbis = << <<"mips">>, <<"arm64-v8a">> >>
    /\ act.deviceArch = "arm64"
    /\ "push" \in act.calls
    /\ act.outcome = "resolved"

\* setupAndroidHost has read a list of ABIs none of which is recognized.
OnlyUnrecognizedAbis ==
    /\ act.stage = "setupAndroidHost"
    /\ act.supportedAbis # <<>>
    /\ \A i \in DOMAIN act.supportedAbis : ~Recognized(act.supportedAbis[i])

\* C10: when the device reports only unrecognized ABIs setupAndroidHost
\* rejects with the unrecognized-ABI error, selects no architecture, and
\* neither fetches nor pushes a binary.
C10_UnrecognizedAbisFail ==
    OnlyUnrecognizedAbis =>
        /\ act.pc = "done"
        /\ act.outcome = "rejected" /\ act.error = "unrecognized-abi"
        /\ act.deviceArch = "none"
        /\ act.calls = {"getProperties"}

\* The list "mips,armeabi-v7a" was rejected.
C10_Witness ==
    /\ OnlyUnrecognizedAbis
    /\ act.supportedAbis = << <<"mips">>, <<"armeabi-v7a">> >>
    /\ act.error = "unrecognized-abi"

\* launchAndroidHost has started its readiness poll.
LaunchPolled == act.stage = "launchAndroidHost" /\ act.tries >= 1

LaunchDone == LaunchPolled /\ act.pc = "done"

\* The results of the attempts made so far.
AttemptResults == {act.attempts[i] : i \in DOMAIN act.attempts}

\* C11: a launch none of whose readiness probes returned 'available' ends
\* only after 10 attempts, rejected with the launch-failed error; it never
\* resolves.
C11_LaunchTimesOut ==
    LaunchDone /\ "available" \notin AttemptResults =>
        /\ Len(act.attempts) = 10
        /\ act.outcome = "rejected"
        /\ act.error = "launch-failed"

\* The server was started on a rooted device without the binary: ten probes
\* found the device in need of setup, and the launch was rejected.
C11_Witness ==
    /\ LaunchDone
    /\ act.attempts = [i \in 1..10 |-> "setup-required"]
    /\ server[act.hostId] = "started"
    /\ act.error = "launch-failed"

\* launchAndroidHost's getRootCommand has resolved without a command.
NoRootCommand ==
    /\ act.stage = "launchAndroidHost"
    /\ act.pc # "getRootCommand"
    /\ act.error # "external-error"
    /\ ~Rooted(act.hostId)

\* C12: a launch that obtains no root command is rejected with the
\* no-root-access error, having started no server on the device and made no
\* readiness probe.
C12_NoRootNoLaunch ==
    NoRootCommand =>
        /\ act.pc = "done"
        /\ act.outcome = "rejected"
        /\ act.error = "no-root"
        /\ act.calls = {"getRootCommand"}
        /\ server[act.hostId] = "none"
        /\ act.tries = 0
        /\ act.attempts = <<>>
        /\ act.probe = HsIdle

\* The launch of an unrooted device that has the binary installed was rejected.
C12_Witness ==
    /\ NoRootCommand
    /\ Installed(act.hostId)
    /\ device[act.hostId].root = "no"
    /\ act.outcome = "rejected"

\* What a returned isActivable call answers: whether the list its lookup
\* resolved to has a host.
IsActivableAnswers ==
    \A c \in Callers :
        caller[c].method = "isActivable" /\ caller[c].pc = "returned" =>
            /\ lookup[caller[c].promise].outcome = "fulfilled"
            /\ caller[c].activable = (lookup[caller[c].promise].result # <<>>)

\* A step in which an isActivable call arrives while a lookup is executing
\* starts no lookup, leaves the slot alone and awaits the executing one.
IsActivableJoins ==
    \A c \in Callers :
        Calls(c) /\ caller'[c].method = "isActivable" /\ Executing # {} =>
            /\ lookups' = lookups
            /\ fridaTargetsPromise' = fridaTargetsPromise
            /\ caller'[c].promise \in Executing
            /\ Executing' = Executing

\* C13: isActivable returns false when the hosts list is empty and true
\* otherwise, and it gets the list through the slot of getFridaHosts: a call
\* that arrives while a lookup is executing starts no second one.
C13_IsActivable == []IsActivableAnswers /\ [][IsActivableJoins]_vars

\* An isActivable call joined the lookup a getMetadata call had started,
\* which found no device, and returned false.
C13_Witness ==
    \E c \in Callers, other \in Callers :
        /\ caller[c].method = "isActivable" /\ caller[c].pc = "returned"
        /\ ~caller[c].started
        /\ caller[other].method = "getMetadata" /\ caller[other].started
        /\ caller[other].promise = caller[c].promise
        /\ caller[c].hosts = <<>>
        /\ caller[c].activable = FALSE

\* The step is the clear step of lookup id: its finally callback runs.
ClearStep(id) == lookup[id].phase = "settled" /\ lookup'[id].phase = "cleared"

\* C14: when the finally callback of a lookup runs, the slot holds that
\* lookup's promise, and a promise leaves the slot only through the finally
\* callback of its own lookup.
C14_ClearsOwn ==
    [][/\ \A id \in LookupIds :
             ClearStep(id) =>
                 fridaTargetsPromise = id /\ fridaTargetsPromise' = 0
       /\ (fridaTargetsPromise # 0 /\ fridaTargetsPromise' # fridaTargetsPromise)
             => ClearStep(fridaTargetsPromise) /\ fridaTargetsPromise' = 0]_vars

\* The first lookup's callback has run and the slot holds the promise of the
\* second lookup, which is probing two devices.
C14_Witness ==
    /\ lookup[1].phase = "cleared"
    /\ fridaTargetsPromise = 2
    /\ lookup[2].phase = "probing"
    /\ Len(lookup[2].devices) = 2

\* A check of a getHostStatus call has been started / has ended.
CheckStarted(res) == res # "unchecked"

CheckEnded(res) == res \in {"yes", "no", "threw"}

\* The order of the checks within one getHostStatus call.
ChecksInOrder(t) ==
    /\ CheckStarted(t.defaultPortOpen) <=> CheckStarted(t.alternatePortOpen)
    /\ CheckStarted(t.installed) =>
          t.defaultPortOpen = "no" /\ t.alternatePortOpen = "no"
    /\ CheckStarted(t.rooted) => t.installed = "no"
    /\ t.defaultPortOpen = "yes" \/ t.alternatePortOpen = "yes" =>
          ~CheckStarted(t.installed) /\ ~CheckStarted(t.rooted)
    /\ t.installed = "yes" => ~CheckStarted(t.rooted)
    /\ t.pc = "returned" =>
          /\ CheckEnded(t.defaultPortOpen) /\ CheckEnded(t.alternatePortOpen)
          /\ t.installed # "pending" /\ t.rooted # "pending"

\* C15: in each getHostStatus call the two port probes are started together,
\* the Installed check only once both port probes have ended negative, the
\* Rooted check only once the Installed check has ended negative; an open
\* port starts neither check, an installed binary does not start the Rooted
\* check.
C15_ChecksInSeries ==
    \A id \in LookupIds, d \in Devices :
        /\ ChecksInOrder(lookup[id].hs[d])
        /\ lookup[id].hs[d].pc = "returned" =>
              /\ PortReachable(d) =>
                    /\ ~CheckStarted(lookup[id].hs[d].installed)
                    /\ ~CheckStarted(lookup[id].hs[d].rooted)
              /\ Installed(d) => ~CheckStarted(lookup[id].hs[d].rooted)

\* One lookup has resolved two rooted devices that have the binary: on the
\* one with the alternate port open only the ports were probed, on the one
\* with no open port the Installed check ran and the Rooted check did not.
C15_Witness ==
    \E id \in LookupIds, d \in Devices, e \in Devices :
        /\ lookup[id].hs[d].pc = "returned"
        /\ device[d].openPorts = {FRIDA_ALTERNATE_PORT}
        /\ Installed(d) /\ Rooted(d)
        /\ lookup[id].hs[d].installed = "unchecked"
        /\ lookup[id].hs[e].pc = "returned"
        /\ ~PortReachable(e) /\ Installed(e) /\ Rooted(e)
        /\ lookup[id].hs[e].installed = "yes"
        /\ lookup[id].hs[e].rooted = "unchecked"

\* The operation opens a session to the server: intercept or getSubMetadata.
OpensSession ==
    act.stage \in {"interceptAndroidFridaTarget", "getAndroidFridaTargets"}

\* The port answers a connection attempt made now.
Connects(port) == port \in device[act.hostId].openPorts

\* The session's port and the calls made, in every state.
SessionPortInOrder ==
    OpensSession =>
        /\ "openTcpAlternate" \in act.calls
        /\ "connect" \in act.calls <=> act.port # 0
        /\ act.port = 24072 <=>
              "connect" \in act.calls /\ "openTcpDefault" \notin act.calls
        /\ act.port = 27042 <=>
              "connect" \in act.calls /\ "openTcpDefault" \in act.calls
        /\ "spawnWithScript" \in act.calls \/ "enumerateApplications" \in act.calls
              => "connect" \in act.calls

\* What the steps that end a connection attempt do.
SessionAttemptSteps ==
    OpensSession /\ act' # act =>
        /\ act.pc = "openTcpAlternate" /\ Connects(24072) =>
              /\ act'.pc = "connect" /\ act'.port = 24072
              /\ "openTcpDefault" \notin act'.calls
        /\ "openTcpDefault" \in act'.calls /\ "openTcpDefault" \notin act.calls =>
              /\ act.pc = "openTcpAlternate" /\ ~Connects(24072)
              /\ act'.pc = "openTcpDefault"
        /\ act.pc = "openTcpDefault" /\ Connects(27042) =>
              act'.pc = "connect" /\ act'.port = 27042
        /\ act.pc = "openTcpDefault" /\ ~Connects(27042) =>
              /\ act'.pc = "done" /\ act'.outcome = "rejected"
              /\ act'.calls = {"openTcpAlternate", "openTcpDefault"}

\* C16: intercept and getSubMetadata connect over the alternate port whenever
\* it answers, try the default port only once the attempt on the alternate
\* port has failed, and when both fail reject without a session and without
\* spawning anything.
C16_AlternateFirst == []SessionPortInOrder /\ [][SessionAttemptSteps]_vars

\* An intercept found the alternate port closed, connected over the default
\* port and spawned the application.
C16_Witness ==
    /\ act.stage = "interceptAndroidFridaTarget"
    /\ act.calls = {"openTcpAlternate", "openTcpDefault", "connect",
                    "buildScript", "spawnWithScript"}
    /\ act.port = 27042
    /\ act.outcome = "resolved"

\* C17: an attempt whose getHostStatus throws counts as not ready: the
\* launch neither ends nor rejects on it unless it was the 10th attempt, the
\* poll goes on, a later attempt that returns 'available' resolves the
\* launch, and a polled launch is rejected only after 10 attempts.
C17_ProbeErrorNotReady ==
    LaunchPolled =>
        /\ \A i \in DOMAIN act.attempts :
              act.attempts[i] = "error" /\ i < 10 =>
                  \/ i < Len(act.attempts)
                  \/ act.pc \in {"sleep", "probe"}
        /\ act.attempts # <<>> /\ act.attempts[Len(act.attempts)] = "available" =>
              act.pc = "done" /\ act.outcome = "resolved"
        /\ act.outcome = "rejected" =>
              Len(act.attempts) = 10 /\ act.error = "launch-failed"

\* The first attempt threw, a later one found the device not listening yet,
\* the last one returned 'available': the launch resolved.
C17_Witness ==
    /\ LaunchDone
    /\ act.outcome = "resolved"
    /\ Len(act.attempts) >= 3
    /\ act.attempts[1] = "error"
    /\ act.attempts[2] = "launch-required"
    /\ act.attempts[Len(act.attempts)] = "available"

\* setupAndroidHost has resolved for device d and nothing has been pushed
\* to it since.
InstallCompleted(d) ==
    \/ pushTransfer[d] = "running"
    \/ /\ act.stage = "setupAndroidHost" /\ act.hostId = d
       /\ act.outcome = "resolved"

\* C18: once setupAndroidHost has resolved for a device the Installed check
\* of that device is true, and a launch that polls the device afterwards,
\* with no port open, finds it 'launch-required', never 'setup-required' or
\* 'unavailable'.
C18_InstallAdvances ==
    \A d \in Devices :
        InstallCompleted(d) =>
            /\ Installed(d)
            /\ act.stage = "launchAndroidHost" /\ act.hostId = d =>
                  AttemptResults \subseteq {"launch-required", "available"}

\* launchAndroidHost has its root command and calls shell.
LaunchHasRoot == act.stage = "launchAndroidHost" /\ act.pc = "shell"

LaunchCompleted == act.stage = "launchAndroidHost" /\ act.pc = "done"

\* A launch makes at most 10 attempts, resolves only on an attempt that
\* returned 'available', and makes no attempt after such a one.
AttemptsBounded ==
    act.stage = "launchAndroidHost" =>
        /\ act.tries <= 10
        /\ Len(act.attempts) <= act.tries
        /\ act.tries <= Len(act.attempts) + 1
        /\ act.outcome = "resolved" =>
              /\ act.attempts # <<>>
              /\ act.attempts[Len(act.attempts)] = "available"
        /\ \A i \in DOMAIN act.attempts :
              act.attempts[i] = "available" =>
                  i = Len(act.attempts) /\ act.pc = "done"

\* C19: a launch that has its root command completes, resolved or rejected,
\* after at most 10 readiness probes when every call it awaits returns; it
\* resolves only if a probe returned 'available', and that probe is its last.
C19_LaunchCompletes == []AttemptsBounded /\ (LaunchHasRoot ~> LaunchCompleted)

\* The launch resolved on its tenth attempt, the only one to find the
\* server listening.
C19_Witness ==
    /\ LaunchCompleted
    /\ act.outcome = "resolved"
    /\ Len(act.attempts) = 10
    /\ \A i \in 1..9 : act.attempts[i] = "launch-required"
    /\ act.attempts[10] = "available"

\* The step belongs to activate, getSubMetadata, deactivate or
\* deactivateAll, or to the transfer or the server one of them started.
PipelineStep ==
    \/ act' # act
    \/ operations' # operations
    \/ server' # server
    \/ pushTransfer' # pushTransfer

\* C20: only getFridaHosts reads and writes the slot: no step of activate
\* (setup, launch and its readiness probes, intercept), getSubMetadata,
\* deactivate or deactivateAll changes the slot, a lookup or a caller of
\* getFridaHosts; the slot is only filled by a getFridaHosts call that finds
\* it empty and only emptied by the finally callback of the lookup it holds;
\* a lookup is only started by a getFridaHosts call.
C20_SlotOnlyDiscovery ==
    [][/\ PipelineStep =>
             /\ fridaTargetsPromise' = fridaTargetsPromise
             /\ lookups' = lookups
             /\ lookup' = lookup
             /\ caller' = caller
       /\ fridaTargetsPromise' # fridaTargetsPromise =>
             \/ /\ fridaTargetsPromise = 0
                /\ \E c \in Callers : Calls(c) /\ StartsLookupFor(c)
             \/ /\ fridaTargetsPromise # 0
                /\ ClearStep(fridaTargetsPromise)
                /\ fridaTargetsPromise' = 0
       /\ lookups' # lookups => \E c \in Callers : Calls(c)]_vars

\* A launch is in its second readiness attempt on a device while the lookup
\* in the slot is in the middle of resolving the same device.
C20_Witness ==
    /\ act.stage = "launchAndroidHost"
    /\ act.pc = "probe"
    /\ Len(act.attempts) = 1
    /\ act.probe.pc = "installed"
    /\ fridaTargetsPromise = 1
    /\ lookup[1].phase = "probing"
    /\ lookup[1].hs[act.hostId].pc = "rooted"
    /\ caller[1].pc = "awaiting"

====
